---- MODULE Spec2Model ----
(***************************************************************************)
(* Model of the two header-only utilities of the repository:               *)
(*   src/cpp/strcvt.h    code-page conversions and the UTF-8 length scan   *)
(*   src/cpp/utf8_args.h command-line arguments as UTF-8                   *)
(*                                                                         *)
(* A char buffer is a sequence of bytes 0..255, a wchar_t buffer a         *)
(* sequence of 16-bit code units 0..65535.  A `const char*` / `wchar_t*`   *)
(* argument is the memory it points to, terminator included; a std::string *)
(* / std::wstring is its content (size() = Len), c_str() appends the 0.    *)
(***************************************************************************)
EXTENDS Integers, Sequences, FiniteSets

VARIABLES
    pc,         \* position of the single caller: idle, scan, args_*, done, back,
                \* fault (a read hit unmapped memory), beyond (scan not followed),
                \* thrown (the call was left by a C++ exception)
    fn,         \* name of the function being called / last called
    str,        \* narrow or wide input (memory for pointers, content for strings)
    length,     \* the `length` argument of the C-string entry points
    cp,         \* the code page argument
    res,        \* returned string (narrow or wide)
    back,       \* result of converting res back with WString2U8String
    osFail,     \* 0, or the ordinal (1 measure, 2 fill) of the OS call that fails
    nseq,       \* U8StrLength input: number of well-formed sequences it starts with
    tail,       \* U8StrLength input: the bytes following those sequences
    pos,        \* U8StrLength: 1-based index of `str` in the memory
    count,      \* U8StrLength: the counter / return value
    over,       \* U8StrLength: sequences counted from reads past the terminator
    native,     \* the process's native argument list
    argv_w,     \* array returned by CommandLineToArgvW (nullptr on failure)
    i,          \* loop index of GetUTF8CommandLineArgs (0-based, as in the code)
    argc,       \* argument count set by CommandLineToArgvW
    utf8_args,  \* the vector being built / returned
    stderr,     \* lines written to the error stream
    frees,      \* number of LocalFree calls on argv_w
    uaf         \* TRUE once argv_w was read after being released

vars == <<pc, fn, str, length, cp, res, back, osFail, nseq, tail, pos, count, over,
          native, argv_w, i, argc, utf8_args, stderr, frees, uaf>>

(***************************************************************************)
(* Bounds of the model.                                                    *)
(***************************************************************************)
MaxChars == 2       \* well-formed UTF-8 sequences an input starts with
MaxTail == 2        \* arbitrary bytes following them
MaxWLen == 2        \* code units of a std::wstring input
MaxArgs == 2        \* native arguments
MaxArgChars == 1    \* characters per native argument
MaxOverRead == 2    \* sequences past the terminator the scan is followed for

(***************************************************************************)
(* Program constants.                                                      *)
(***************************************************************************)
CP_ACP == 0
CP_UTF8 == 65001
BadCodePage == 99999          \* a code page the system does not have
nullptr == <<-1>>             \* distinct from every buffer
nullarray == <<nullptr>>      \* the null wchar_t**, distinct from every array

---------------------------------------------------------------------------
(***************************************************************************)
(* Sequence helpers.                                                       *)
(***************************************************************************)
SeqsUpTo(S, n) == UNION {[1..k -> S] : k \in 0..n}

RECURSIVE Flatten(_)
Flatten(ss) == IF ss = <<>> THEN <<>> ELSE Head(ss) \o Flatten(Tail(ss))

Drop(s, k) == SubSeq(s, k + 1, Len(s))

Zeros(n) == [k \in 1..n |-> 0]

\* A buffer of n elements after a call wrote `out` at its start.
Filled(buffer, out) ==
    [k \in 1..Len(buffer) |-> IF k <= Len(out) THEN out[k] ELSE buffer[k]]

\* strlen / wcslen: elements before the first 0 of a terminated buffer.
RECURSIVE strlen(_)
strlen(mem) == IF mem = <<>> \/ mem[1] = 0 THEN 0 ELSE 1 + strlen(Tail(mem))

c_str(s) == s \o <<0>>

---------------------------------------------------------------------------
(***************************************************************************)
(* The operating system's conversion primitives.                           *)
(***************************************************************************)
ValidCodePages == {CP_ACP, CP_UTF8}

IsCont(b) == b \in 128..191

\* Allowed second byte after lead byte b (excludes overlongs, surrogates, > 10FFFF).
SecondOK(b, c) ==
    CASE b = 224 -> c \in 160..191
      [] b = 237 -> c \in 128..159
      [] b = 240 -> c \in 144..191
      [] b = 244 -> c \in 128..143
      [] OTHER -> IsCont(c)

SeqWidth(b) ==
    IF b \in 194..223 THEN 2
    ELSE IF b \in 224..239 THEN 3
    ELSE IF b \in 240..244 THEN 4
    ELSE 0

\* Number of bytes after the lead s[1] that continue a well-formed sequence.
Followers(s) ==
    LET n == SeqWidth(s[1]) IN
    IF n = 0 \/ Len(s) < 2 \/ ~SecondOK(s[1], s[2]) THEN 0
    ELSE IF n = 2 \/ Len(s) < 3 \/ ~IsCont(s[3]) THEN 1
    ELSE IF n = 3 \/ Len(s) < 4 \/ ~IsCont(s[4]) THEN 2
    ELSE 3

CodePointOf(s, n) ==
    CASE n = 1 -> s[1]
      [] n = 2 -> (s[1] - 192) * 64 + (s[2] - 128)
      [] n = 3 -> (s[1] - 224) * 4096 + (s[2] - 128) * 64 + (s[3] - 128)
      [] n = 4 -> (s[1] - 240) * 262144 + (s[2] - 128) * 4096
                  + (s[3] - 128) * 64 + (s[4] - 128)

\* UTF-8 bytes to code points; an ill-formed subsequence becomes U+FFFD.
RECURSIVE Utf8Decode(_)
Utf8Decode(s) ==
    IF s = <<>> THEN <<>>
    ELSE IF s[1] < 128 THEN <<s[1]>> \o Utf8Decode(Tail(s))
    ELSE LET n == SeqWidth(s[1])
             k == Followers(s)
         IN IF n > 0 /\ k = n - 1
            THEN <<CodePointOf(s, n)>> \o Utf8Decode(Drop(s, n))
            ELSE <<65533>> \o Utf8Decode(Drop(s, k + 1))

Utf8Encode1(c) ==
    IF c < 128 THEN <<c>>
    ELSE IF c < 2048 THEN <<192 + (c \div 64), 128 + (c % 64)>>
    ELSE IF c < 65536
         THEN <<224 + (c \div 4096), 128 + ((c \div 64) % 64), 128 + (c % 64)>>
    ELSE <<240 + (c \div 262144), 128 + ((c \div 4096) % 64),
           128 + ((c \div 64) % 64), 128 + (c % 64)>>

Utf16Encode1(c) ==
    IF c < 65536 THEN <<c>>
    ELSE <<55296 + ((c - 65536) \div 1024), 56320 + ((c - 65536) % 1024)>>

IsHigh(u) == u \in 55296..56319
IsLow(u) == u \in 56320..57343

\* UTF-16 code units to code points; an unpaired surrogate becomes U+FFFD.
RECURSIVE Utf16Decode(_)
Utf16Decode(w) ==
    IF w = <<>> THEN <<>>
    ELSE IF IsHigh(w[1]) /\ Len(w) >= 2 /\ IsLow(w[2])
         THEN <<65536 + (w[1] - 55296) * 1024 + (w[2] - 56320)>>
              \o Utf16Decode(Drop(w, 2))
    ELSE IF IsHigh(w[1]) \/ IsLow(w[1]) THEN <<65533>> \o Utf16Decode(Tail(w))
    ELSE <<w[1]>> \o Utf16Decode(Tail(w))

\* The system code page (Windows-1252), on the bytes the model uses.
AcpToWide(b) ==
    CASE b = 128 -> 8364
      [] b = 152 -> 732
      [] b = 159 -> 376
      [] OTHER -> b

\* Wide to the system code page; an unrepresentable unit becomes '?'.
WideToAcp(u) ==
    CASE u = 8364 -> 128
      [] u = 732 -> 152
      [] u = 376 -> 159
      [] u \in {128, 152, 159} -> 63
      [] u < 256 -> u
      [] OTHER -> 63

MBDecode(CodePage, src) ==
    IF CodePage = CP_UTF8
    THEN LET cps == Utf8Decode(src)
         IN Flatten([k \in 1..Len(cps) |-> Utf16Encode1(cps[k])])
    ELSE [k \in 1..Len(src) |-> AcpToWide(src[k])]

WCEncode(CodePage, src) ==
    IF CodePage = CP_UTF8
    THEN LET cps == Utf16Decode(src)
         IN Flatten([k \in 1..Len(cps) |-> Utf8Encode1(cps[k])])
    ELSE [k \in 1..Len(src) |-> WideToAcp(src[k])]

\* The part of the input a call reads: -1 means up to and including the terminator.
SourceOf(mem, n) ==
    IF n = -1 THEN SubSeq(mem, 1, strlen(mem) + 1) ELSE SubSeq(mem, 1, n)

\* Returns the count of units (0 on failure) and what was written to the buffer.
MultiByteToWideChar(CodePage, lpMultiByteStr, cbMultiByte, cchWideChar) ==
    LET w == MBDecode(CodePage, SourceOf(lpMultiByteStr, cbMultiByte)) IN
    IF CodePage \notin ValidCodePages \/ cbMultiByte = 0 \/ cbMultiByte < -1
    THEN [ret |-> 0, out |-> <<>>]
    ELSE IF cchWideChar = 0 THEN [ret |-> Len(w), out |-> <<>>]
    ELSE IF cchWideChar < Len(w) THEN [ret |-> 0, out |-> <<>>]
    ELSE [ret |-> Len(w), out |-> w]

WideCharToMultiByte(CodePage, lpWideCharStr, cchWideChar, cbMultiByte) ==
    LET b == WCEncode(CodePage, SourceOf(lpWideCharStr, cchWideChar)) IN
    IF CodePage \notin ValidCodePages \/ cchWideChar = 0 \/ cchWideChar < -1
    THEN [ret |-> 0, out |-> <<>>]
    ELSE IF cbMultiByte = 0 THEN [ret |-> Len(b), out |-> <<>>]
    ELSE IF cbMultiByte < Len(b) THEN [ret |-> 0, out |-> <<>>]
    ELSE [ret |-> Len(b), out |-> b]

\* The n-th OS call of a primitive: it fails when the environment says so.
OSCall(n, r) == IF osFail = n THEN [ret |-> 0, out |-> <<>>] ELSE r

---------------------------------------------------------------------------
(***************************************************************************)
(* strcvt.h: the conversion functions.                                     *)
(***************************************************************************)
CStr2WString(s, len, codepage) ==
    IF s = nullptr THEN <<>>
    ELSE LET wlen == OSCall(1, MultiByteToWideChar(codepage, s, len, 0)).ret IN
         IF wlen = 0 THEN <<>>
         ELSE Filled(Zeros(wlen),
                     OSCall(2, MultiByteToWideChar(codepage, s, len, wlen)).out)

String2WString(s, codepage) ==
    IF s = <<>> THEN <<>> ELSE CStr2WString(c_str(s), Len(s), codepage)

WString2String(wstr, codepage) ==
    IF wstr = <<>> THEN <<>>
    ELSE LET len == OSCall(1, WideCharToMultiByte(codepage, c_str(wstr),
                                                  Len(wstr), 0)).ret IN
         IF len = 0 THEN <<>>
         ELSE Filled(Zeros(len),
                     OSCall(2, WideCharToMultiByte(codepage, c_str(wstr),
                                                   Len(wstr), len)).out)

\* Variant: the code page argument is left at its default.
U8CStr2WString_DefaultCp(s, len) ==
    IF s = nullptr \/ len = 0 THEN <<>> ELSE CStr2WString(s, len, CP_ACP)

U8CStr2WString(s, len) ==
    IF s = nullptr \/ len = 0 THEN <<>> ELSE CStr2WString(s, len, CP_UTF8)

U8String2WString(s) ==
    IF s = <<>> THEN <<>> ELSE String2WString(s, CP_UTF8)

WString2U8String(wstr) ==
    IF wstr = <<>> THEN <<>> ELSE WString2String(wstr, CP_UTF8)

U8CStr2String(utf8_str, len) ==
    IF utf8_str = nullptr \/ len = 0 THEN <<>>
    ELSE WString2String(U8CStr2WString(utf8_str, len), CP_ACP)

U8String2String(utf8_str) ==
    IF utf8_str = <<>> THEN <<>>
    ELSE U8CStr2String(c_str(utf8_str), Len(utf8_str))

String2U8String(s) ==
    IF s = <<>> THEN <<>>
    ELSE WString2U8String(String2WString(s, CP_ACP))

---------------------------------------------------------------------------
(***************************************************************************)
(* strcvt.h: U8StrLength, one loop iteration per step.                     *)
(***************************************************************************)

\* Variant: the last test compares the top four bits, so 0xF8..0xFF pass as leads.
Advance_WideLead(c) ==
    IF c < 128 THEN 1
    ELSE IF c \div 32 = 6 THEN 2
    ELSE IF c \div 16 = 14 THEN 3
    ELSE IF c \div 16 = 15 THEN 4
    ELSE 0
\* Bytes the lead byte c makes the scan advance; 0 is the `break`.
Advance(c) ==
    IF c < 128 THEN 1
    ELSE IF c \div 32 = 6 THEN 2
    ELSE IF c \div 16 = 14 THEN 3
    ELSE IF c \div 8 = 30 THEN 4
    ELSE 0

---------------------------------------------------------------------------
(***************************************************************************)
(* utf8_args.h                                                             *)
(***************************************************************************)

\* Variant: the string is sized `size`, so it keeps the terminator byte.
WideToUTF8_KeepTerminator(wstr) ==
    IF wstr = nullptr THEN <<>>
    ELSE LET size == OSCall(1, WideCharToMultiByte(CP_UTF8, wstr, -1, 0)).ret IN
         IF size <= 0 THEN <<>>
         ELSE Filled(Zeros(size),
                     OSCall(2, WideCharToMultiByte(CP_UTF8, wstr, -1, size)).out)
WideToUTF8(wstr) ==
    IF wstr = nullptr THEN <<>>
    ELSE LET size == OSCall(1, WideCharToMultiByte(CP_UTF8, wstr, -1, 0)).ret IN
         IF size <= 0 THEN <<>>
         ELSE SubSeq(Filled(Zeros(size),
                            OSCall(2, WideCharToMultiByte(CP_UTF8, wstr, -1, size)).out),
                     1, size - 1)

\* std::string(const char*): the bytes before the terminator.
StdString(mem) == SubSeq(mem, 1, strlen(mem))

ParseFailedLine == "[utf8_args] Failed to parse command line.\n"

---------------------------------------------------------------------------
(***************************************************************************)
(* Inputs.                                                                 *)
(***************************************************************************)
\* a, e-acute, U+4E2D, U+1F600 in UTF-8
Chars == {<<97>>, <<195, 169>>, <<228, 184, 173>>, <<240, 159, 152, 128>>}
CharsNul == Chars \cup {<<0>>}
\* a, a lone continuation byte, 2-, 3- and 4-byte lead bytes, an invalid byte
TailBytes == {97, 128, 195, 228, 240, 255}
AnyByte == TailBytes \cup {0}
\* a, e-acute, U+4E2D, a high and a low surrogate, NUL
WideUnits == {0, 97, 233, 20013, 55357, 56832}
WArgChars == {<<97>>, <<20013>>, <<55357, 56832>>}
AArgChars == {<<97>>, <<195, 169>>}
CodePages == {CP_ACP, CP_UTF8, BadCodePage}

Tails == SeqsUpTo(TailBytes, MaxTail)
CStrContents == {Flatten(cs) \o t : cs \in SeqsUpTo(Chars, MaxChars), t \in Tails}
StdStrings == {Flatten(cs) \o t : cs \in SeqsUpTo(CharsNul, MaxChars), t \in Tails}
WStrings == SeqsUpTo(WideUnits, MaxWLen)
Lengths(s) == {-1, 0, Len(s)} \cup (IF Len(s) > 1 THEN {Len(s) - 1} ELSE {})
WArgs == {c_str(Flatten(cs)) : cs \in SeqsUpTo(WArgChars, MaxArgChars)}
AArgs == {c_str(Flatten(cs)) : cs \in SeqsUpTo(AArgChars, MaxArgChars)}

---------------------------------------------------------------------------
(***************************************************************************)
(* The caller: one call at a time.                                         *)
(***************************************************************************)
Init ==
    /\ pc = "idle" /\ fn = "none"
    /\ str = <<>> /\ length = 0 /\ cp = CP_ACP
    /\ res = <<>> /\ back = <<>> /\ osFail = 0
    /\ nseq = 0 /\ tail = <<>> /\ pos = 0 /\ count = 0 /\ over = 0
    /\ native = <<>> /\ argv_w = nullarray /\ i = 0 /\ argc = 0
    /\ utf8_args = <<>> /\ stderr = <<>> /\ frees = 0 /\ uaf = FALSE

scanVars == <<nseq, tail, pos, count, over>>
argVars == <<native, argv_w, i, argc, utf8_args, stderr, frees, uaf>>
convVars == <<length, cp, res, back>>

\* A conversion function f called on (s, l, c) returned r.
Returned(f, s, l, c, r) ==
    /\ pc' = "done" /\ fn' = f /\ str' = s /\ length' = l /\ cp' = c /\ res' = r
    /\ UNCHANGED <<back, osFail, scanVars, argVars>>

Call_CStr2WString ==
    /\ pc = "idle"
    /\ \E c \in CodePages :
           \/ Returned("CStr2WString", nullptr, -1, c, CStr2WString(nullptr, -1, c))
           \/ \E s \in CStrContents : \E l \in Lengths(s) :
                 Returned("CStr2WString", c_str(s), l, c, CStr2WString(c_str(s), l, c))

Call_String2WString ==
    /\ pc = "idle"
    /\ \E s \in StdStrings, c \in CodePages :
           Returned("String2WString", s, Len(s), c, String2WString(s, c))

Call_WString2String ==
    /\ pc = "idle"
    /\ \E w \in WStrings, c \in CodePages :
           Returned("WString2String", w, Len(w), c, WString2String(w, c))

Call_U8CStr2WString ==
    /\ pc = "idle"
    /\ \/ Returned("U8CStr2WString", nullptr, -1, CP_UTF8, U8CStr2WString(nullptr, -1))
       \/ \E s \in CStrContents : \E l \in Lengths(s) :
             Returned("U8CStr2WString", c_str(s), l, CP_UTF8, U8CStr2WString(c_str(s), l))

Call_U8String2WString ==
    /\ pc = "idle"
    /\ \E s \in StdStrings :
           Returned("U8String2WString", s, Len(s), CP_UTF8, U8String2WString(s))

Call_WString2U8String ==
    /\ pc = "idle"
    /\ \E w \in WStrings :
           Returned("WString2U8String", w, Len(w), CP_UTF8, WString2U8String(w))

Call_U8CStr2String ==
    /\ pc = "idle"
    /\ \/ Returned("U8CStr2String", nullptr, -1, CP_ACP, U8CStr2String(nullptr, -1))
       \/ \E s \in CStrContents : \E l \in Lengths(s) :
             Returned("U8CStr2String", c_str(s), l, CP_ACP, U8CStr2String(c_str(s), l))

Call_U8String2String ==
    /\ pc = "idle"
    /\ \E s \in StdStrings :
           Returned("U8String2String", s, Len(s), CP_ACP, U8String2String(s))

Call_String2U8String ==
    /\ pc = "idle"
    /\ \E s \in StdStrings :
           Returned("String2U8String", s, Len(s), CP_UTF8, String2U8String(s))

\* The caller converts the wide string it got back to UTF-8.
Call_RoundTrip ==
    /\ pc = "done" /\ fn \in {"U8CStr2WString", "U8String2WString"}
    /\ back' = WString2U8String(res)
    /\ pc' = "back"
    /\ UNCHANGED <<fn, str, length, cp, res, osFail, scanVars, argVars>>

(***************************************************************************)
(* U8StrLength                                                             *)
(***************************************************************************)
StartScan(f, mem, n, t) ==
    /\ fn' = f /\ str' = mem /\ nseq' = n /\ tail' = t /\ pos' = 1 /\ count' = 0
    /\ over' = 0
    /\ UNCHANGED <<convVars, osFail, argVars>>

U8StrLength_CStr ==
    /\ pc = "idle"
    /\ \/ /\ StartScan("U8StrLength", nullptr, 0, <<>>)         \* if (!str) return 0
          /\ pc' = "done"
       \/ \E cs \in SeqsUpTo(Chars, MaxChars), t \in Tails :
             /\ StartScan("U8StrLength", c_str(Flatten(cs) \o t), Len(cs), t)
             /\ pc' = "scan"

U8StrLength_String ==
    /\ pc = "idle"
    /\ \E cs \in SeqsUpTo(CharsNul, MaxChars), t \in Tails :
           /\ StartScan("U8StrLength_string", c_str(Flatten(cs) \o t), Len(cs), t)
           /\ pc' = IF Flatten(cs) \o t = <<>> THEN "done" ELSE "scan"

\* One evaluation of the loop condition and, if it holds, of the loop body.
Iterate(c) ==
    IF c = 0 \/ Advance(c) = 0
    THEN pc' = "done" /\ UNCHANGED <<pos, count>>
    ELSE pc' = "scan" /\ pos' = pos + Advance(c) /\ count' = count + 1

U8Scan_Step ==
    /\ pc = "scan" /\ pos <= Len(str)
    /\ Iterate(str[pos])
    /\ UNCHANGED <<fn, str, convVars, osFail, nseq, tail, over, argVars>>

\* `str` is past the terminator: the byte read is whatever the memory holds,
\* or the read faults.  A byte that ends the loop always may be read; the scan
\* is followed through MaxOverRead further sequences and is then left open
\* ("beyond": it may still return any larger count, fault or go on).
U8Scan_OverRead ==
    /\ pc = "scan" /\ pos > Len(str)
    /\ \/ \E c \in AnyByte :
             /\ c = 0 \/ Advance(c) = 0 \/ over < MaxOverRead
             /\ Iterate(c)
             /\ over' = IF c = 0 \/ Advance(c) = 0 THEN over ELSE over + 1
       \/ over >= MaxOverRead /\ pc' = "beyond" /\ UNCHANGED <<pos, count, over>>
       \/ pc' = "fault" /\ UNCHANGED <<pos, count, over>>
    /\ UNCHANGED <<fn, str, convVars, osFail, nseq, tail, argVars>>

(***************************************************************************)
(* GetUTF8CommandLineArgs                                                  *)
(***************************************************************************)
GetArgs_Parse ==
    /\ pc = "idle"
    /\ \E lst \in SeqsUpTo(WArgs, MaxArgs), ok \in BOOLEAN :
          /\ native' = lst
          /\ argv_w' = IF ok THEN lst ELSE nullarray
          /\ argc' = IF ok THEN Len(lst) ELSE 0
    /\ utf8_args' = <<>>
    /\ fn' = "GetUTF8CommandLineArgs" /\ pc' = "args_check"
    /\ UNCHANGED <<str, convVars, osFail, scanVars, i, stderr, frees, uaf>>

\* Variant: the failure branch returns without writing the diagnostic.
GetArgs_ParseFailed_Silent ==
    /\ pc = "args_check" /\ argv_w = nullarray
    /\ pc' = "done"
    /\ UNCHANGED <<fn, str, convVars, osFail, scanVars, argVars>>

GetArgs_ParseFailed ==
    /\ pc = "args_check" /\ argv_w = nullarray
    /\ stderr' = Append(stderr, ParseFailedLine)
    /\ pc' = "done"
    /\ UNCHANGED <<fn, str, convVars, osFail, scanVars, native, argv_w, i, argc,
                   utf8_args, frees, uaf>>

\* utf8_args.reserve(argc) allocates when argc > 0; the allocation may fail, and
\* std::bad_alloc then leaves the function (no handler, nothing releases argv_w).
GetArgs_Reserve ==
    /\ pc = "args_check" /\ argv_w # nullarray
    /\ \/ pc' = "args_loop" /\ i' = 0
       \/ argc > 0 /\ pc' = "thrown" /\ UNCHANGED i
    /\ UNCHANGED <<fn, str, convVars, osFail, scanVars, native, argv_w, argc,
                   utf8_args, stderr, frees, uaf>>

\* One iteration: argv_w[i] is read, WideToUTF8 builds a std::string and
\* emplace_back stores it.  Building the string may fail to allocate: the
\* exception unwinds the function, destroying utf8_args, without LocalFree.
GetArgs_Convert ==
    /\ pc = "args_loop" /\ i < argc
    /\ uaf' = (uaf \/ frees > 0)
    /\ \/ /\ utf8_args' = Append(utf8_args, WideToUTF8(argv_w[i + 1]))
          /\ i' = i + 1
          /\ UNCHANGED pc
       \/ /\ pc' = "thrown"
          /\ utf8_args' = <<>>
          /\ UNCHANGED i
    /\ UNCHANGED <<fn, str, convVars, osFail, scanVars, native, argv_w, argc,
                   stderr, frees>>

GetArgs_Free ==
    /\ pc = "args_loop" /\ ~(i < argc)
    /\ frees' = frees + 1
    /\ pc' = "args_ret"
    /\ UNCHANGED <<fn, str, convVars, osFail, scanVars, native, argv_w, i, argc,
                   utf8_args, stderr, uaf>>

GetArgs_Return ==
    /\ pc = "args_ret"
    /\ pc' = "done"
    /\ UNCHANGED <<fn, str, convVars, osFail, scanVars, argVars>>

\* The non-Windows overload: std::vector<std::string>(argv, argv + argc).
GetArgs_Posix ==
    /\ pc = "idle"
    /\ \E lst \in SeqsUpTo(AArgs, MaxArgs) :
          /\ native' = lst
          /\ argc' = Len(lst)
          /\ utf8_args' = [k \in 1..Len(lst) |-> StdString(lst[k])]
    /\ fn' = "GetUTF8CommandLineArgs_argv" /\ pc' = "done"
    /\ UNCHANGED <<str, convVars, osFail, scanVars, argv_w, i, stderr, frees, uaf>>

(***************************************************************************)
(* The caller drops the result and is ready for the next call.             *)
(***************************************************************************)
Forget ==
    /\ pc \in {"done", "back", "fault", "beyond", "thrown"}
    /\ pc' = "idle" /\ fn' = "none"
    /\ str' = <<>> /\ length' = 0 /\ cp' = CP_ACP
    /\ res' = <<>> /\ back' = <<>> /\ osFail' = 0
    /\ nseq' = 0 /\ tail' = <<>> /\ pos' = 0 /\ count' = 0 /\ over' = 0
    /\ native' = <<>> /\ argv_w' = nullarray /\ i' = 0 /\ argc' = 0
    /\ utf8_args' = <<>> /\ stderr' = <<>> /\ frees' = 0 /\ uaf' = FALSE

Next ==
    \/ Call_CStr2WString \/ Call_String2WString \/ Call_WString2String
    \/ Call_U8CStr2WString \/ Call_U8String2WString \/ Call_WString2U8String
    \/ Call_U8CStr2String \/ Call_U8String2String \/ Call_String2U8String
    \/ Call_RoundTrip
    \/ U8StrLength_CStr \/ U8StrLength_String \/ U8Scan_Step \/ U8Scan_OverRead
    \/ GetArgs_Parse \/ GetArgs_ParseFailed \/ GetArgs_Reserve \/ GetArgs_Convert
    \/ GetArgs_Free \/ GetArgs_Return \/ GetArgs_Posix
    \/ Forget

Spec == Init /\ [][Next]_vars

(***************************************************************************)
(* The same caller when an OS conversion call may fail: before a call of   *)
(* one of the two primitives the environment decides which of its OS calls *)
(* (1 the measurement, 2 the materialization) reports zero units.          *)
(***************************************************************************)
OSFailure ==
    /\ pc = "idle" /\ osFail = 0
    /\ osFail' \in {1, 2}
    /\ UNCHANGED <<pc, fn, str, convVars, scanVars, argVars>>

NextOSFail ==
    \/ OSFailure
    \/ Call_CStr2WString
    \/ Call_WString2String
    \/ Forget

SpecOSFail == Init /\ [][NextOSFail]_vars

---------------------------------------------------------------------------
(***************************************************************************)
(* Properties.                                                             *)
(***************************************************************************)
ConversionFns ==
    {"CStr2WString", "String2WString", "WString2String", "U8CStr2WString",
     "U8String2WString", "WString2U8String", "U8CStr2String", "U8String2String",
     "String2U8String"}
CStrFns == {"CStr2WString", "U8CStr2WString", "U8CStr2String"}
ScanFns == {"U8StrLength", "U8StrLength_string"}

\* Well-formed UTF-8 with no NUL byte.
RECURSIVE WellFormedUtf8(_)
WellFormedUtf8(s) ==
    \/ s = <<>>
    \/ s[1] \in 1..127 /\ WellFormedUtf8(Tail(s))
    \/ /\ SeqWidth(s[1]) > 0
       /\ Followers(s) = SeqWidth(s[1]) - 1
       /\ WellFormedUtf8(Drop(s, SeqWidth(s[1])))

\* A lead byte matching none of 0xxxxxxx, 110xxxxx, 1110xxxx, 11110xxx.
InvalidLead(c) == c \in 128..191 \/ c \in 248..255

\* The call in `fn` was given a null pointer or an empty string.
EmptyInput ==
    \/ str = nullptr
    \/ fn \notin CStrFns /\ str = <<>>
    \/ fn \in CStrFns /\ str = <<0>> /\ length \in {-1, 0}

\* C1: every conversion function returns a string of length 0 for a null or an
\* empty input, the C-string entry points called on "" with length -1 included.
C1_EmptyInputEmptyResult ==
    (pc = "done" /\ fn \in ConversionFns /\ EmptyInput) => Len(res) = 0

\* The input of the narrow-to-wide call that was converted back: the content of
\* the std::string, or the C string given whole (by its size or by -1).
RoundTripInput ==
    IF fn = "U8String2WString" THEN str ELSE StdString(str)

RoundTripCase ==
    /\ pc = "back" /\ str # nullptr
    /\ \/ fn = "U8String2WString" /\ strlen(c_str(str)) = Len(str)
       \/ fn = "U8CStr2WString" /\ length \in {-1, strlen(str)}
    /\ WellFormedUtf8(RoundTripInput)

\* C2: a valid UTF-8 string without NUL converted to wide by any UTF-8 entry
\* point and back by WString2U8String is returned byte for byte.
C2_RoundTrip == RoundTripCase => back = RoundTripInput

\* C3: on a concatenation of well-formed UTF-8 sequences both overloads of
\* U8StrLength return the number of sequences.
C3_CountsSequences ==
    (pc = "done" /\ fn \in ScanFns /\ str # nullptr /\ tail = <<>>) => count = nseq

\* The scan was given nseq NUL-free well-formed sequences followed by a byte
\* that is no lead byte (and by whatever follows it), and has returned.
StoppedAtInvalidLead ==
    /\ pc = "done" /\ fn \in ScanFns /\ str # nullptr
    /\ tail # <<>> /\ InvalidLead(tail[1])
    /\ strlen(str) >= Len(str) - 1 - Len(tail)

\* C4: U8StrLength stops at the first byte in lead position that matches no
\* pattern and returns the number of sequences before it.
C4_StopsAtInvalidLead ==
    StoppedAtInvalidLead => (count = nseq /\ pos = Len(str) - Len(tail))

C4_Witness ==
    StoppedAtInvalidLead /\ nseq = 2 /\ Len(tail) = 2 /\ count = 2

\* The Windows call has returned after a successful re-parse.
ArgsParsedAndReturned ==
    pc = "done" /\ fn = "GetUTF8CommandLineArgs" /\ argv_w # nullarray

\* C5: after a successful re-parse, and on the byte-array platform, the list
\* has one element per native argument, in order: the argument's UTF-8 form as
\* WString2U8String gives it (Windows), its bytes (argv), without terminator.
C5_ArgsMatchNative ==
    /\ ArgsParsedAndReturned =>
          /\ Len(utf8_args) = Len(native)
          /\ \A k \in 1..Len(native) :
                utf8_args[k] = WString2U8String(StdString(native[k]))
    /\ (pc = "done" /\ fn = "GetUTF8CommandLineArgs_argv") =>
          /\ Len(utf8_args) = Len(native)
          /\ \A k \in 1..Len(native) : c_str(utf8_args[k]) = native[k]

C5_Witness ==
    /\ ArgsParsedAndReturned
    /\ Len(native) = 2
    /\ utf8_args[1] = <<97>> /\ utf8_args[2] = <<228, 184, 173>>

\* C6: when the re-parse returns no array the result is the empty list and
\* exactly one diagnostic line is written; after a successful re-parse none is.
C6_ParseFailure ==
    fn = "GetUTF8CommandLineArgs" =>
        /\ (pc = "done" /\ argv_w = nullarray) =>
               (utf8_args = <<>> /\ Len(stderr) = 1)
        /\ argv_w # nullarray => stderr = <<>>

C6_Witness ==
    /\ pc = "done" /\ fn = "GetUTF8CommandLineArgs" /\ argv_w = nullarray
    /\ Len(native) = 2 /\ stderr = <<ParseFailedLine>>

\* C7: CStr2WString and WString2String return an empty string whenever an OS
\* conversion call, the measurement or the materialization, reported zero units.
C7_ZeroUnitsEmptyResult ==
    (pc = "done" /\ fn \in {"CStr2WString", "WString2String"} /\ osFail # 0)
        => res = <<>>

\* C8: the two-stage conversions are the compositions of the two primitives.
C8_TwoStageComposition ==
    pc = "done" =>
        /\ fn = "U8CStr2String" =>
               res = WString2String(CStr2WString(str, length, CP_UTF8), CP_ACP)
        /\ fn = "U8String2String" =>
               res = WString2String(CStr2WString(c_str(str), Len(str), CP_UTF8),
                                    CP_ACP)
        /\ fn = "String2U8String" =>
               res = WString2String(String2WString(str, CP_ACP), CP_UTF8)

C8_Witness ==
    /\ pc = "done" /\ fn = "U8CStr2String"
    /\ str = <<195, 169, 228, 184, 173, 0>> /\ length = 5
    /\ res = <<233, 63>>

\* C9: a non-null array is released exactly once before the function is left,
\* on every exit path (return or exception), and is not read afterwards; a null
\* array is never released.
C9_ReleasedOnce ==
    fn = "GetUTF8CommandLineArgs" =>
        /\ (pc \in {"done", "thrown"} /\ argv_w # nullarray) => frees = 1
        /\ argv_w = nullarray => frees = 0
        /\ frees <= 1
        /\ ~uaf

\* C10: the scan position of U8StrLength never passes the terminator.
C10_NeverPastTerminator ==
    (fn \in ScanFns /\ str # nullptr) => pos <= strlen(str) + 1

====
